---- MODULE Spec2Model ----
(***************************************************************************)
(* A model of the HuBERT unit extractors (networks/hubert/model.py) and of *)
(* the training callbacks (networks/utils/train_callbacks.py).             *)
(*                                                                         *)
(* Five specifications share the module, one per component:                *)
(*   SpecMask  _compute_mask, the span masker                              *)
(*   SpecEnc   Hubert.encode / units and TransformerEncoder.forward        *)
(*   SpecEval  VlabelerEvaluateCallback.on_validation_start, over every    *)
(*             dataset and reference folder, with few metric values        *)
(*   SpecAgg   the same callback on one utterance, over many metric values *)
(*   SpecCkpt  RecentCheckpointsCallback.on_train_batch_end                *)
(* Each leaves the variables of the other components untouched.            *)
(*                                                                         *)
(* Optional values are sequences: <<>> is None, <<v>> is the value v.      *)
(* Real numbers are exact rationals over a fixed denominator.              *)
(***************************************************************************)
EXTENDS Integers, Sequences, FiniteSets, TLC

VARIABLES
    \* ---- _compute_mask ----
    cm_pc,              \* "idle" | "call" | "returned" | "ValueError" | "RuntimeError"
    shape,              \* <<batch_size, sequence_length>>
    mask_prob,          \* <<numerator, denominator>> of mask_prob
    mask_length,
    min_masks,
    num_masked_spans,   \* Optional: the span count used for sampling
    mask_indices,       \* Optional: row -> set of drawn start offsets
    mask,               \* Optional: row -> set of positions set to True
    \* ---- Hubert / HubertSoft / HubertDiscrete ----
    hub_pc,             \* "idle" | "new" | "ready" | "units_returned" |
                        \* "units_raised" | "forward_returned"
    kind,               \* "soft" | "discrete"
    training,           \* nn.Module.training of the model object
    self_mask,          \* Hubert._mask
    wav,                \* number of samples of the waveform given to units
    ret_mask,           \* Optional: the mask encode returned
    replaced,           \* positions whose feature vector became masked_spec_embed
    output_layer,       \* Optional: the output_layer given to the encoder
    applied,            \* the layers the encoder applied, in order
    units,              \* Optional: the number of frames units returned
    hub_err,            \* the exception units raised, "" if none
    \* ---- VlabelerEvaluateCallback ----
    ev_pc,              \* position in on_validation_start: "idle" (not running) |
                        \* "inference" | "export" | "metrics" | "logging" |
                        \* "raised"; "off" when there is no callback
    dataset,            \* self.dataset: the utterances, in order
    references,         \* names of the reference TextGrids in evaluate_folder
    logger,             \* whether trainer.logger is set
    get_melspec,        \* Optional: self.get_melspec, the cycle that built it
    cycle,              \* number of validation cycles started
    predictions,        \* the local list predictions
    exported,           \* the TextGrid files under out_tg_dir of this cycle
    todo,               \* the files the rglob iterator has not yielded yet
    metrics,            \* metric key -> the files its accumulator was updated with
    result,             \* Optional: the result dictionary
    logged,             \* the keys logged in this cycle
    events,             \* the stages of this cycle so far, in order
    \* ---- RecentCheckpointsCallback ----
    save_top_k,
    save_every_steps,
    saved_checkpoints,  \* self.saved_checkpoints, a path being named by its step
    global_step,        \* trainer.global_step at the last call
    disk,               \* the checkpoint files that exist
    saves               \* every path saved so far, in order

maskVars == <<cm_pc, shape, mask_prob, mask_length, min_masks,
              num_masked_spans, mask_indices, mask>>

encVars == <<hub_pc, kind, training, self_mask, wav, ret_mask, replaced,
             output_layer, applied, units, hub_err>>

evalVars == <<ev_pc, dataset, references, logger, get_melspec, cycle, predictions,
              exported, todo, metrics, result, logged, events>>

ckptVars == <<save_top_k, save_every_steps, saved_checkpoints, global_step, disk,
              saves>>

None == <<>>
Some(v) == <<v>>
Max(a, b) == IF a >= b THEN a ELSE b
Min(a, b) == IF a <= b THEN a ELSE b

(***************************************************************************)
(* _compute_mask                                                           *)
(***************************************************************************)
MaxBatch == 2
MaxSeqLen == 4
MaxMinMasks == 3
ProbDen == 4        \* mask_prob ranges over 0/ProbDen .. ProbDen/ProbDen
RandDen == 3        \* random.random() ranges over 0/RandDen .. (RandDen-1)/RandDen

\* model.py:184-190, the two argument checks, in order
MaskLengthInvalidOffByOne(sequence_length, ml) ==
    ml < 1 \/ ml >= sequence_length
MaskLengthInvalid(sequence_length, ml) ==
    ml < 1 \/ ml > sequence_length

\* model.py:193, int(mask_prob * sequence_length / mask_length + random.random())
\* with mask_prob = p[1]/p[2] and the draw r/RandDen; the operand is >= 0, so
\* int() is the floor
StochasticRound(p, sequence_length, ml, r) ==
    (p[1] * sequence_length * RandDen + r * p[2] * ml) \div (p[2] * ml * RandDen)

\* model.py:194, max(num_masked_spans, min_masks)
AtLeastMinMasksDropped(n, mm) == n
AtLeastMinMasks(n, mm) == Max(n, mm)

\* model.py:197-198, the clamp
ClampSpansMissing(n, sequence_length, ml) == n
ClampSpans(n, sequence_length, ml) ==
    IF n * ml > sequence_length THEN sequence_length \div ml ELSE n

\* model.py:193-198
NumMaskedSpans(p, sequence_length, ml, mm, r) ==
    ClampSpans(AtLeastMinMasks(StochasticRound(p, sequence_length, ml, r), mm),
               sequence_length, ml)

\* model.py:204-206, the categories of uniform_dist: the start offsets
StartOffsets(sequence_length, ml) == 0 .. (sequence_length - (ml - 1)) - 1

\* model.py:209, torch.multinomial(uniform_dist, n) without replacement: per
\* row, n distinct categories (their order does not matter to the scatter)
Multinomial(batch_size, offsets, n) ==
    [0 .. batch_size - 1 -> {s \in SUBSET offsets : Cardinality(s) = n}]

\* model.py:212-225, expand every start to mask_length indices and scatter
Scatter(batch_size, indices, ml) ==
    [row \in 0 .. batch_size - 1 |->
        {start + offset : start \in indices[row], offset \in 0 .. ml - 1}]

MaskInit ==
    /\ cm_pc = "call"
    /\ shape \in (1 .. MaxBatch) \X (0 .. MaxSeqLen)
    /\ mask_prob \in (0 .. ProbDen) \X {ProbDen}
    /\ mask_length \in -1 .. MaxSeqLen + 1
    /\ min_masks \in 0 .. MaxMinMasks
    /\ num_masked_spans = None
    /\ mask_indices = None
    /\ mask = None

MaskIdle ==
    /\ cm_pc = "idle"
    /\ shape = <<1, 1>>
    /\ mask_prob = <<0, 1>>
    /\ mask_length = 1
    /\ min_masks = 0
    /\ num_masked_spans = None
    /\ mask_indices = None
    /\ mask = None

\* model.py:175-227, the possible results of one call of _compute_mask: raise,
\* or count, draw and scatter. torch.multinomial refuses to draw more samples
\* than there are categories; whether it accepts a draw of zero samples depends
\* on the torch build, so both outcomes are kept.
ComputeMaskOutcomes(batch_size, sequence_length, p, ml, mm) ==
    IF MaskLengthInvalid(sequence_length, ml)
    THEN {[pc |-> "ValueError", n |-> None, indices |-> None, mask |-> None]}
    ELSE UNION {
        LET n == NumMaskedSpans(p, sequence_length, ml, mm, r)
            offsets == StartOffsets(sequence_length, ml)
        IN (IF n > Cardinality(offsets) \/ n <= 0
            THEN {[pc |-> "RuntimeError", n |-> Some(n), indices |-> None, mask |-> None]}
            ELSE {})
           \cup
           {[pc |-> "returned", n |-> Some(n), indices |-> Some(drawn),
             mask |-> Some(Scatter(batch_size, drawn, ml))] :
               drawn \in Multinomial(batch_size, offsets, n)}
        : r \in 0 .. RandDen - 1}

ComputeMask ==
    /\ cm_pc = "call"
    /\ \E out \in ComputeMaskOutcomes(shape[1], shape[2], mask_prob, mask_length, min_masks) :
         /\ cm_pc' = out.pc
         /\ num_masked_spans' = out.n
         /\ mask_indices' = out.indices
         /\ mask' = out.mask
    /\ UNCHANGED <<shape, mask_prob, mask_length, min_masks>>

Rows == 0 .. shape[1] - 1
SpansPlaced(row) == Cardinality(mask_indices[1][row])

\* C7: _compute_mask raises ValueError exactly when mask_length < 1 or
\* mask_length > sequence_length; when it raises, no span count, draw or mask
\* has been produced; mask_length = sequence_length is accepted.
C7_ValueErrorIffBadLength ==
    cm_pc \notin {"idle", "call"} =>
        /\ (cm_pc = "ValueError") <=> (mask_length < 1 \/ mask_length > shape[2])
        /\ cm_pc = "ValueError" =>
              num_masked_spans = None /\ mask_indices = None /\ mask = None
        /\ (mask_length >= 1 /\ mask_length = shape[2]) => num_masked_spans # None

C7_Witness ==
    /\ cm_pc = "returned"
    /\ mask_length = shape[2]
    /\ mask # None

\* C2 as stated: every returned mask has at least min_masks spans per row.
C2_SpansAtLeastMinMasks ==
    cm_pc = "returned" => \A row \in Rows : SpansPlaced(row) >= min_masks

\* C2 amended: every returned mask has, per row, at least
\* min(min_masks, floor(sequence_length / mask_length)) spans: the clamp to
\* num_spans * mask_length <= sequence_length takes precedence over min_masks.
C2_SpansAtLeastClampedMinMasks ==
    cm_pc = "returned" =>
        \A row \in Rows :
            SpansPlaced(row) >= Min(min_masks, shape[2] \div mask_length)

C2_Witness ==
    /\ cm_pc = "returned"
    /\ min_masks >= 2
    /\ min_masks * mask_length > shape[2]
    /\ \A row \in Rows : SpansPlaced(row) = shape[2] \div mask_length

MaxSamples == 3600

NumLayers == 12
HiddenDim == 768
DiscreteLayer == 7
HubertMaskLength == 10
HubertMinMasks == 2
HubertMaskProb == <<8, 10>>
Kernels == <<10, 3, 3, 3, 3, 2, 2>>
Strides == <<5, 2, 2, 2, 2, 2, 2>>

\* model.py:77 and 89, F.pad(wav, ((400 - 320) // 2, (400 - 320) // 2))
Pad(n) == (400 - 320) \div 2 + n + (400 - 320) \div 2

\* model.py:98-115, the length after conv0..conv6 (no padding, dilation 1):
\* floor((L - k) / s) + 1 per stage; a stage whose input is shorter than its
\* kernel raises
RECURSIVE ConvStack(_, _)
ConvStack(len, i) ==
    IF i > Len(Kernels) THEN Some(len)
    ELSE IF len < Kernels[i] THEN None
    ELSE ConvStack((len - Kernels[i]) \div Strides[i] + 1, i + 1)

FeatureExtractorLen(len) == ConvStack(len, 1)

\* model.py:135-147, Conv1d(kernel 128, padding 64) then x[:, :, :-1]
PositionalLen(t) == ((t + 2 * (128 \div 2) - 128) + 1) - 1

\* model.py:168, the Python slice self.layers[:output_layer]
PySliceToOffByOne(seq, n) ==
    IF n = None THEN seq ELSE SubSeq(seq, 1, Min(Max(n[1] - 1, 0), Len(seq)))
PySliceTo(seq, n) ==
    IF n = None THEN seq
    ELSE IF n[1] >= 0 THEN SubSeq(seq, 1, Min(n[1], Len(seq)))
    ELSE SubSeq(seq, 1, Max(Len(seq) + n[1], 0))

\* model.py:155-158, self.layers: layer i of the stack is named i
Layers == [i \in 1 .. NumLayers |-> i]

\* model.py:167-172, TransformerEncoder.forward: the activation is the
\* sequence of layers it went through
RECURSIVE ApplyLayers(_, _)
ApplyLayers(output, layers) ==
    IF layers = <<>> THEN output
    ELSE ApplyLayers(Append(output, Head(layers)), Tail(layers))

TransformerEncoderOutput(src, n) == ApplyLayers(src, PySliceTo(Layers, n))

\* model.py:38-43, Hubert.mask on a [1, t, 768] tensor
HubertMaskOutcomes(t) ==
    IF training /\ self_mask
    THEN {[err |-> IF out.pc = "returned" THEN "" ELSE out.pc,
           mask |-> out.mask,
           replaced |-> IF out.pc = "returned" THEN out.mask[1][0] ELSE {}] :
            out \in ComputeMaskOutcomes(1, t, HubertMaskProb, HubertMaskLength,
                                        HubertMinMasks)}
    ELSE {[err |-> "", mask |-> None, replaced |-> {}]}

\* model.py:45-54, Hubert.encode on a waveform of len samples
EncodeOutcomes(len, layer) ==
    LET t == FeatureExtractorLen(len)
        failed(e) == [err |-> e, frames |-> None, mask |-> None,
                      replaced |-> {}, applied |-> <<>>]
    IN IF t = None THEN {failed("RuntimeError")}
       ELSE {IF m.err # "" THEN failed(m.err)
             ELSE IF PositionalLen(t[1]) # t[1] THEN failed("RuntimeError")
             ELSE [err |-> "", frames |-> t, mask |-> m.mask,
                   replaced |-> m.replaced,
                   applied |-> TransformerEncoderOutput(<<>>, layer)] :
                m \in HubertMaskOutcomes(t[1])}

\* model.py:91, x.squeeze() drops every dimension of size 1
Squeeze(dims) == SelectSeq(dims, LAMBDA d : d # 1)

\* model.py:91, kmeans.predict takes a [n_samples, n_features] array and
\* returns n_samples labels; any other rank is a ValueError
KMeansPredict(dims) == IF Len(dims) = 2 THEN Some(dims[1]) ELSE None

EncIdle ==
    /\ hub_pc = "idle"
    /\ kind = "soft"
    /\ training = TRUE
    /\ self_mask = TRUE
    /\ wav = 0
    /\ ret_mask = None
    /\ replaced = {}
    /\ output_layer = None
    /\ applied = <<>>
    /\ units = None
    /\ hub_err = ""

EncInit ==
    /\ hub_pc = "new"
    /\ kind = "soft"
    /\ training = TRUE
    /\ self_mask = TRUE
    /\ wav = 0
    /\ ret_mask = None
    /\ replaced = {}
    /\ output_layer = None
    /\ applied = <<>>
    /\ units = None
    /\ hub_err = ""

\* model.py:251-268, hubert_soft: HubertSoft() is built with mask = True and
\* in training mode; only a pretrained model is put in eval mode
HubertSoftFactory ==
    /\ hub_pc = "new"
    /\ \E pretrained \in BOOLEAN :
         /\ kind' = "soft"
         /\ self_mask' = TRUE
         /\ training' = ~pretrained
    /\ hub_pc' = "ready"
    /\ UNCHANGED <<wav, ret_mask, replaced, output_layer, applied, units, hub_err>>

\* model.py:230-248, hubert_discrete
HubertDiscreteFactory ==
    /\ hub_pc = "new"
    /\ \E pretrained \in BOOLEAN :
         /\ kind' = "discrete"
         /\ self_mask' = TRUE
         /\ training' = ~pretrained
    /\ hub_pc' = "ready"
    /\ UNCHANGED <<wav, ret_mask, replaced, output_layer, applied, units, hub_err>>

\* the part of units that both variants share: pad, encode, keep the result
UnitsEncode(n, layer, out) ==
    /\ wav' = n
    /\ output_layer' = layer
    /\ ret_mask' = out.mask
    /\ replaced' = out.replaced
    /\ applied' = out.applied

\* model.py:75-79, HubertSoft.units
HubertSoftUnits ==
    /\ hub_pc = "ready"
    /\ kind = "soft"
    /\ \E n \in 0 .. MaxSamples :
         \E out \in EncodeOutcomes(Pad(n), None) :
            /\ UnitsEncode(n, None, out)
            /\ IF out.err # ""
               THEN hub_pc' = "units_raised" /\ hub_err' = out.err /\ units' = None
               ELSE hub_pc' = "units_returned" /\ hub_err' = "" /\ units' = out.frames
    /\ UNCHANGED <<kind, training, self_mask>>

\* model.py:87-92, HubertDiscrete.units
HubertDiscreteUnits ==
    /\ hub_pc = "ready"
    /\ kind = "discrete"
    /\ \E n \in 0 .. MaxSamples :
         \E out \in EncodeOutcomes(Pad(n), Some(DiscreteLayer)) :
            /\ UnitsEncode(n, Some(DiscreteLayer), out)
            /\ IF out.err # ""
               THEN hub_pc' = "units_raised" /\ hub_err' = out.err /\ units' = None
               ELSE LET labels == KMeansPredict(Squeeze(<<1, out.frames[1], HiddenDim>>))
                    IN IF labels = None
                       THEN hub_pc' = "units_raised" /\ hub_err' = "ValueError"
                            /\ units' = None
                       ELSE hub_pc' = "units_returned" /\ hub_err' = ""
                            /\ units' = labels
    /\ UNCHANGED <<kind, training, self_mask>>

\* model.py:160-172, TransformerEncoder.forward called with any output_layer
TransformerEncoderForward ==
    /\ hub_pc = "ready"
    /\ \E n \in {None} \cup {Some(i) : i \in -1 .. NumLayers + 1} :
         /\ output_layer' = n
         /\ applied' = TransformerEncoderOutput(<<>>, n)
    /\ hub_pc' = "forward_returned"
    /\ UNCHANGED <<kind, training, self_mask, wav, ret_mask, replaced, units, hub_err>>

\* C1 as stated: whatever the mask flag and the mode of the model, a units
\* call that returns has computed no span mask, replaced no feature vector by
\* the mask embedding, and got None as the mask from encode.
C1_UnitsNeverMask ==
    hub_pc = "units_returned" => ret_mask = None /\ replaced = {}

\* C3: TransformerEncoder.forward with output_layer = n, 1 <= n <= 12, applies
\* exactly layers 1..n, each once and in stack order (the n-th intermediate
\* activation of a full run); with output_layer omitted it applies all 12; the
\* discrete extractor therefore stops after layer 7, the soft one runs all 12.
C3_OutputLayerRunsFirstN ==
    /\ hub_pc = "forward_returned" =>
          /\ output_layer = None => applied = [i \in 1 .. 12 |-> i]
          /\ (output_layer # None /\ output_layer[1] \in 1 .. 12) =>
                applied = [i \in 1 .. output_layer[1] |-> i]
    /\ hub_pc = "units_returned" =>
          applied = [i \in 1 .. (IF kind = "discrete" THEN 7 ELSE 12) |-> i]

C3_Witness ==
    /\ hub_pc = "forward_returned"
    /\ output_layer = Some(7)
    /\ applied = <<1, 2, 3, 4, 5, 6, 7>>

\* C6 as stated, for a model in eval mode (where masking cannot interfere):
\* for every waveform of N >= 320 samples, units of either extractor returns
\* exactly floor(N / 320) frames.
C6_FramesAreFloorDiv320 ==
    (hub_pc \in {"units_returned", "units_raised"} /\ ~training /\ wav >= 320) =>
        units = Some(wav \div 320)

(***************************************************************************)
(* VlabelerEvaluateCallback                                                *)
(***************************************************************************)
MaxUtterances == 2
MaxCycles == 2
MaxMetric == 5          \* metric values range over 0/10 .. MaxMetric/10
MaxMetricNarrow == 0    \* the values SpecEval draws; SpecAgg draws up to MaxMetric

Utterances == <<"a", "b", "c", "d">>
Names == {Utterances[i] : i \in 1 .. Min(MaxUtterances, Len(Utterances))}

\* train_callbacks.py:108-115, the keys of the metrics dictionary
MetricKeys == {"BoundaryEditRatio", "BoundaryEditRatioWeighted",
               "VlabelerEditRatio10-20ms", "VlabelerEditRatio20-50ms",
               "VlabelerEditRatio50-100ms", "VlabelerEditRatio100-5000ms"}

\* rationals as <<numerator, denominator>> in lowest terms
RECURSIVE Gcd(_, _)
Gcd(a, b) == IF b = 0 THEN a ELSE Gcd(b, a % b)
Rat(n, d) == LET g == Gcd(n, d) IN <<n \div g, d \div g>>
RatMul(x, y) == Rat(x[1] * y[1], x[2] * y[2])
RatAdd(x, y) == Rat(x[1] * y[2] + y[1] * x[2], x[2] * y[2])

\* train_callbacks.py:133-134
VlabelerLossEqualWeights(r) ==
    RatAdd(RatAdd(RatMul(r["VlabelerEditRatio10-20ms"], <<1, 4>>),
                  RatMul(r["VlabelerEditRatio20-50ms"], <<1, 4>>)),
           RatAdd(RatMul(r["VlabelerEditRatio50-100ms"], <<1, 4>>),
                  RatMul(r["VlabelerEditRatio100-5000ms"], <<1, 4>>)))
VlabelerLoss(r) ==
    RatAdd(RatAdd(RatMul(r["VlabelerEditRatio10-20ms"], <<1, 10>>),
                  RatMul(r["VlabelerEditRatio20-50ms"], <<2, 10>>)),
           RatAdd(RatMul(r["VlabelerEditRatio50-100ms"], <<3, 10>>),
                  RatMul(r["VlabelerEditRatio100-5000ms"], <<4, 10>>)))

\* train_callbacks.py:136
Total(vlabeler_loss, r) ==
    RatAdd(RatMul(vlabeler_loss, <<5, 10>>),
           RatMul(r["BoundaryEditRatioWeighted"], <<5, 10>>))

\* train_callbacks.py:131-136, the result dictionary built from the computed
\* metric values
Aggregate(computed) ==
    LET vlabeler_loss == VlabelerLoss(computed)
        total == Total(vlabeler_loss, computed)
    IN [key \in MetricKeys \cup {"vlabeler_loss", "total"} |->
           IF key = "vlabeler_loss" THEN vlabeler_loss
           ELSE IF key = "total" THEN total
           ELSE computed[key]]

\* post_processing(predictions): the predictions, processed as one batch
PostProcessed(preds) == preds

\* Exporter(predictions, log, out_tg_dir).export(['textgrid']): one TextGrid
\* per prediction, named after its utterance
ExportedFiles(preds) == {preds[i] : i \in 1 .. Len(preds)}

\* Metric.compute(): one scalar per accumulator, any of the given values
Computed(values) == [MetricKeys -> values]

\* train_callbacks.py:118, list(self.evaluate_folder.rglob(name)): the
\* reference files of that name
TargetFiles(pred_file) == IF pred_file \in references THEN <<pred_file>> ELSE <<>>

\* train_callbacks.py:119, if not target_file: continue
SkipPredNever(target_file) == FALSE
SkipPred(target_file) == target_file = <<>>

\* train_callbacks.py:73, the for loop over self.dataset is exhausted
InferenceLoopDoneEarly == Len(predictions) >= Min(1, Len(dataset))
InferenceLoopDone == Len(predictions) = Len(dataset)

\* train_callbacks.py:117, the for loop over the exported files is exhausted
MetricLoopDone == todo = {}

EvalIdle ==
    /\ ev_pc = "off"
    /\ dataset = <<>>
    /\ references = {}
    /\ logger = FALSE
    /\ get_melspec = None
    /\ cycle = 0
    /\ predictions = <<>>
    /\ exported = {}
    /\ todo = {}
    /\ metrics = [key \in MetricKeys |-> <<>>]
    /\ result = None
    /\ logged = {}
    /\ events = <<>>

\* train_callbacks.py:59-66, __init__: the dataset is the wav files of the
\* evaluation folder, in the order found; get_melspec is None
EvalConstructed(datasets, folders) ==
    /\ ev_pc = "idle"
    /\ dataset \in datasets
    /\ references \in folders
    /\ logger \in BOOLEAN
    /\ get_melspec = None
    /\ cycle = 0
    /\ predictions = <<>>
    /\ exported = {}
    /\ todo = {}
    /\ metrics = [key \in MetricKeys |-> <<>>]
    /\ result = None
    /\ logged = {}
    /\ events = <<>>

\* every ordering of every set of utterances
Datasets ==
    {seq \in UNION {[1 .. n -> Names] : n \in 0 .. MaxUtterances} :
        \A i, j \in 1 .. Len(seq) : i # j => seq[i] # seq[j]}

EvalInit == EvalConstructed(Datasets, SUBSET Names)
AggInit == EvalConstructed({<<Utterances[1]>>}, {{Utterances[1]}})

\* train_callbacks.py:68-72, entry of on_validation_start
OnValidationStart ==
    /\ ev_pc = "idle"
    /\ cycle < MaxCycles
    /\ cycle' = cycle + 1
    /\ get_melspec' = IF get_melspec = None THEN Some(cycle + 1) ELSE get_melspec
    /\ predictions' = <<>>
    /\ exported' = {}
    /\ todo' = {}
    /\ metrics' = [key \in MetricKeys |-> <<>>]
    /\ result' = None
    /\ logged' = {}
    /\ events' = <<>>
    /\ ev_pc' = "inference"
    /\ UNCHANGED <<dataset, references, logger>>

\* train_callbacks.py:73-99, one iteration of the inference loop
InferOnce ==
    /\ ev_pc = "inference"
    /\ ~InferenceLoopDone
    /\ predictions' = Append(predictions, dataset[Len(predictions) + 1])
    /\ events' = Append(events, "infer")
    /\ UNCHANGED <<ev_pc, dataset, references, logger, get_melspec, cycle, exported,
                   todo, metrics, result, logged>>

\* train_callbacks.py:101, post_processing(predictions)
PostProcessing ==
    /\ ev_pc = "inference"
    /\ InferenceLoopDone
    /\ predictions' = PostProcessed(predictions)
    /\ events' = Append(events, "post_processing")
    /\ ev_pc' = "export"
    /\ UNCHANGED <<dataset, references, logger, get_melspec, cycle, exported, todo,
                   metrics, result, logged>>

\* train_callbacks.py:102-115, export one TextGrid per prediction, list them,
\* create the six accumulators
Export ==
    /\ ev_pc = "export"
    /\ exported' = ExportedFiles(predictions)
    /\ todo' = exported'
    /\ metrics' = [key \in MetricKeys |-> <<>>]
    /\ events' = Append(events, "export")
    /\ ev_pc' = "metrics"
    /\ UNCHANGED <<dataset, references, logger, get_melspec, cycle, predictions,
                   result, logged>>

\* train_callbacks.py:117-129, one iteration of the metric loop; the files
\* come in the order of the directory walk
MetricStep ==
    /\ ev_pc = "metrics"
    /\ ~MetricLoopDone
    /\ \E pred_file \in todo :
         LET target_file == TargetFiles(pred_file)
         IN /\ todo' = todo \ {pred_file}
            /\ IF SkipPred(target_file)
               THEN /\ events' = Append(events, "skip")
                    /\ UNCHANGED <<ev_pc, metrics>>
               ELSE IF target_file = <<>>
               THEN \* target_file[0] of an empty list
                    /\ ev_pc' = "raised"
                    /\ events' = Append(events, "IndexError")
                    /\ UNCHANGED metrics
               ELSE /\ metrics' = [key \in MetricKeys |-> Append(metrics[key], pred_file)]
                    /\ events' = Append(events, "update")
                    /\ UNCHANGED ev_pc
    /\ UNCHANGED <<dataset, references, logger, get_melspec, cycle, predictions,
                   exported, result, logged>>

\* train_callbacks.py:131-136, compute every metric and derive the composites
AggregationReady == ev_pc = "metrics" /\ MetricLoopDone

Aggregation(values) ==
    /\ AggregationReady
    /\ \E computed \in Computed(values) : result' = Some(Aggregate(computed))
    /\ events' = Append(events, "compute")
    /\ ev_pc' = "logging"
    /\ UNCHANGED <<dataset, references, logger, get_melspec, cycle, predictions,
                   exported, todo, metrics, logged>>

AggregationNarrow == Aggregation({Rat(k, 10) : k \in 0 .. MaxMetricNarrow})
AggregationWide == Aggregation({Rat(k, 10) : k \in 0 .. MaxMetric})

\* train_callbacks.py:138-140, log every entry of result if there is a logger
Logging ==
    /\ ev_pc = "logging"
    /\ logged' = IF logger THEN DOMAIN result[1] ELSE {}
    /\ events' = IF logger THEN Append(events, "log") ELSE events
    /\ ev_pc' = "idle"
    /\ UNCHANGED <<dataset, references, logger, get_melspec, cycle, predictions,
                   exported, todo, metrics, result>>

StageRank(e) ==
    CASE e = "infer" -> 1
      [] e = "post_processing" -> 2
      [] e = "export" -> 3
      [] e \in {"update", "skip"} -> 4
      [] e = "compute" -> 5
      [] e = "log" -> 6
      [] OTHER -> 0

Count(seq, set) == Cardinality({i \in 1 .. Len(seq) : seq[i] \in set})

\* C4: in the metric phase a prediction without a reference file is skipped:
\* nothing is raised, no accumulator is ever updated with it, the predictions
\* that have a reference are all fed to every accumulator, the loop can
\* always take its next step and then go on to aggregation (whose guard is
\* AggregationReady), and with a logger every result is logged.
C4_MissingReferenceSkipped ==
    /\ ev_pc # "raised"
    /\ \A key \in MetricKeys : \A i \in 1 .. Len(metrics[key]) :
          metrics[key][i] \in references
    /\ Count(events, {"skip"}) = Cardinality((exported \ todo) \ references)
    /\ (ev_pc = "metrics" /\ todo # {}) => ENABLED MetricStep
    /\ (ev_pc = "metrics" /\ todo = {}) => AggregationReady
    /\ result # None =>
          \A key \in MetricKeys :
              {metrics[key][i] : i \in 1 .. Len(metrics[key])}
                  = exported \cap references
    /\ (ev_pc = "idle" /\ cycle > 0) =>
          /\ result # None
          /\ logger => logged = MetricKeys \cup {"vlabeler_loss", "total"}

C4_Witness ==
    /\ ev_pc = "idle"
    /\ result # None
    /\ logged # {}
    /\ exported \ references # {}
    /\ metrics["BoundaryEditRatio"] # <<>>
    /\ events[Len(events) - 2] = "skip"

\* C5: in every validation cycle the stages come in order and never
\* interleave: post-processing only after every utterance of the dataset has
\* been predicted, in dataset order; export only after post-processing; metric
\* updates only after export; aggregation only after the last exported file
\* has been handled; logging only after aggregation.
C5_StagesInOrder ==
    /\ \A i, j \in 1 .. Len(events) :
          i < j => StageRank(events[i]) <= StageRank(events[j])
    /\ \A i \in 1 .. Len(events) : StageRank(events[i]) > 0
    /\ \A e \in {"post_processing", "export", "compute", "log"} :
          Count(events, {e}) <= 1
    /\ Count(events, {"post_processing"}) = 1 =>
          Count(events, {"infer"}) = Len(dataset) /\ predictions = dataset
    /\ Count(events, {"export"}) = 1 => Count(events, {"post_processing"}) = 1
    /\ Count(events, {"update", "skip"}) > 0 => Count(events, {"export"}) = 1
    /\ Count(events, {"compute"}) = 1 =>
          /\ Count(events, {"export"}) = 1
          /\ Count(events, {"update", "skip"}) = Len(dataset)
    /\ Count(events, {"log"}) = 1 => Count(events, {"compute"}) = 1

C5_Witness ==
    /\ ev_pc = "idle"
    /\ Len(dataset) = 2
    /\ events = <<"infer", "infer", "post_processing", "export", "update",
                  "update", "compute", "log">>

Milli(x) == (x[1] * 1000) \div x[2]

\* C8: at aggregation, for all metric values,
\* vlabeler_loss = 0.1*m10-20 + 0.2*m20-50 + 0.3*m50-100 + 0.4*m100-5000 and
\* total = 0.5*vlabeler_loss + 0.5*BoundaryEditRatioWeighted; the values
\* 0.1, 0.2, 0.3, 0.4 give 0.30, and with BoundaryEditRatioWeighted = 0.5
\* the total is 0.40.
C8_CompositeMetrics ==
    result # None =>
        LET r == result[1]
            m1 == r["VlabelerEditRatio10-20ms"]
            m2 == r["VlabelerEditRatio20-50ms"]
            m3 == r["VlabelerEditRatio50-100ms"]
            m4 == r["VlabelerEditRatio100-5000ms"]
            bw == r["BoundaryEditRatioWeighted"]
        IN /\ 1000 % r["vlabeler_loss"][2] = 0
           /\ 1000 % r["total"][2] = 0
           /\ 10 * Milli(r["vlabeler_loss"])
                = 1 * Milli(m1) + 2 * Milli(m2) + 3 * Milli(m3) + 4 * Milli(m4)
           /\ 2 * Milli(r["total"]) = Milli(r["vlabeler_loss"]) + Milli(bw)
           /\ (Milli(m1) = 100 /\ Milli(m2) = 200 /\ Milli(m3) = 300
                  /\ Milli(m4) = 400) =>
                /\ Milli(r["vlabeler_loss"]) = 300
                /\ Milli(bw) = 500 => Milli(r["total"]) = 400

C8_Witness ==
    /\ result # None
    /\ result[1]["VlabelerEditRatio10-20ms"] = <<1, 10>>
    /\ result[1]["VlabelerEditRatio20-50ms"] = <<1, 5>>
    /\ result[1]["VlabelerEditRatio50-100ms"] = <<3, 10>>
    /\ result[1]["VlabelerEditRatio100-5000ms"] = <<2, 5>>
    /\ result[1]["BoundaryEditRatioWeighted"] = <<1, 2>>
    /\ result[1]["vlabeler_loss"] = <<3, 10>>
    /\ result[1]["total"] = <<2, 5>>

(***************************************************************************)
(* RecentCheckpointsCallback                                               *)
(***************************************************************************)
MaxTopK == 2
MaxEvery == 2
MaxStep == 6
MaxSaves == 4

CkptIdle ==
    /\ save_top_k = 0
    /\ save_every_steps = 1
    /\ saved_checkpoints = <<>>
    /\ global_step = -1
    /\ disk = {}
    /\ saves = <<>>

\* train_callbacks.py:36-41, __init__
CkptInit ==
    /\ save_top_k \in 1 .. MaxTopK
    /\ save_every_steps \in 1 .. MaxEvery
    /\ saved_checkpoints = <<>>
    /\ global_step = 0
    /\ disk = {}
    /\ saves = <<>>

\* train_callbacks.py:45-48, the path is a function of the step
CheckpointPath(step) == step

\* train_callbacks.py:43-55, on_train_batch_end at a global_step that is not
\* smaller than the one of the call before
OnTrainBatchEnd ==
    /\ global_step >= 0
    /\ Len(saves) < MaxSaves
    /\ \E step \in global_step .. MaxStep :
         /\ global_step' = step
         /\ IF step % save_every_steps = 0
            THEN LET checkpoint_path == CheckpointPath(step)
                     appended == Append(saved_checkpoints, checkpoint_path)
                     written == disk \cup {checkpoint_path}
                 IN /\ saves' = Append(saves, checkpoint_path)
                    /\ IF Len(appended) > save_top_k
                       THEN /\ saved_checkpoints' = Tail(appended)
                            /\ disk' = written \ {Head(appended)}
                       ELSE /\ saved_checkpoints' = appended
                            /\ disk' = written
            ELSE UNCHANGED <<saved_checkpoints, disk, saves>>
    /\ UNCHANGED <<save_top_k, save_every_steps>>

LastOf(seq, k) == SubSeq(seq, Max(Len(seq) - k, 0) + 1, Len(seq))

\* C10 as stated: after any calls with non-decreasing global_step, the tracked
\* list holds at most save_top_k paths, they are the most recently saved ones,
\* and every tracked path has its checkpoint file on disk.
C10_TrackedCheckpointsOnDisk ==
    /\ Len(saved_checkpoints) <= save_top_k
    /\ saved_checkpoints = LastOf(saves, save_top_k)
    /\ \A i \in 1 .. Len(saved_checkpoints) : saved_checkpoints[i] \in disk

(***************************************************************************)
(* The specifications                                                      *)
(***************************************************************************)
vars == <<maskVars, encVars, evalVars, ckptVars>>

MaskNext ==
    \/ ComputeMask /\ UNCHANGED <<encVars, evalVars, ckptVars>>

EncNext ==
    \/ HubertSoftFactory /\ UNCHANGED <<maskVars, evalVars, ckptVars>>
    \/ HubertDiscreteFactory /\ UNCHANGED <<maskVars, evalVars, ckptVars>>
    \/ HubertSoftUnits /\ UNCHANGED <<maskVars, evalVars, ckptVars>>
    \/ HubertDiscreteUnits /\ UNCHANGED <<maskVars, evalVars, ckptVars>>
    \/ TransformerEncoderForward /\ UNCHANGED <<maskVars, evalVars, ckptVars>>

EvalNext ==
    \/ OnValidationStart /\ UNCHANGED <<maskVars, encVars, ckptVars>>
    \/ InferOnce /\ UNCHANGED <<maskVars, encVars, ckptVars>>
    \/ PostProcessing /\ UNCHANGED <<maskVars, encVars, ckptVars>>
    \/ Export /\ UNCHANGED <<maskVars, encVars, ckptVars>>
    \/ MetricStep /\ UNCHANGED <<maskVars, encVars, ckptVars>>
    \/ AggregationNarrow /\ UNCHANGED <<maskVars, encVars, ckptVars>>
    \/ Logging /\ UNCHANGED <<maskVars, encVars, ckptVars>>

AggNext ==
    \/ OnValidationStart /\ UNCHANGED <<maskVars, encVars, ckptVars>>
    \/ InferOnce /\ UNCHANGED <<maskVars, encVars, ckptVars>>
    \/ PostProcessing /\ UNCHANGED <<maskVars, encVars, ckptVars>>
    \/ Export /\ UNCHANGED <<maskVars, encVars, ckptVars>>
    \/ MetricStep /\ UNCHANGED <<maskVars, encVars, ckptVars>>
    \/ AggregationWide /\ UNCHANGED <<maskVars, encVars, ckptVars>>
    \/ Logging /\ UNCHANGED <<maskVars, encVars, ckptVars>>

CkptNext ==
    \/ OnTrainBatchEnd /\ UNCHANGED <<maskVars, encVars, evalVars>>

InitMask == MaskInit /\ EncIdle /\ EvalIdle /\ CkptIdle
InitEnc == MaskIdle /\ EncInit /\ EvalIdle /\ CkptIdle
InitEval == MaskIdle /\ EncIdle /\ EvalInit /\ CkptIdle
InitAgg == MaskIdle /\ EncIdle /\ AggInit /\ CkptIdle
InitCkpt == MaskIdle /\ EncIdle /\ EvalIdle /\ CkptInit

SpecMask == InitMask /\ [][MaskNext]_vars
SpecEnc == InitEnc /\ [][EncNext]_vars
SpecEval == InitEval /\ [][EvalNext]_vars
SpecAgg == InitAgg /\ [][AggNext]_vars
SpecCkpt == InitCkpt /\ [][CkptNext]_vars
====
